---- MODULE Spec2Model ----
(***************************************************************************)
(* A model of the TimeSeries table of timeseries-go and of its transform   *)
(* operations (Sort, Resample, Split, SplitByDay, SplitByBatchSize, Slice, *)
(* Append, Map, Filter, FilterByTruthTable).                                *)
(*                                                                         *)
(* A timestamp (time.Time) is a natural number of ticks; a float64 column  *)
(* value is a natural number.  A table is a record                         *)
(*     [Index |-> sequence of timestamps,                                  *)
(*      Columns |-> function from column names to sequences of values].    *)
(* Go positions are 0-based; the operators below keep the 0-based          *)
(* positions of the source and add 1 when they index a TLA+ sequence.      *)
(***************************************************************************)
EXTENDS Integers, Sequences, FiniteSets, TLC

\* ------------------------------------------------------------------------
\* Bounds of the model
\* ------------------------------------------------------------------------
MaxLen == 3
MaxTime == 2
MaxVal == 1
MaxCalls == 2
TicksPerDay == 2
ChainLen == 2
ChainTime == 2
OtherLen == 1
OtherTime == 1

Times == 0..MaxTime
Vals == 0..MaxVal
ColNames == {"price", "volume"}

\* ------------------------------------------------------------------------
\* Sequences and tables
\* ------------------------------------------------------------------------
Min2(a, b) == IF a < b THEN a ELSE b

SeqsUpTo(S, n) == UNION {[1..k -> S] : k \in 0..n}

\* s[lo:hi] of Go for 0 <= lo <= hi <= len(s)
GoSlice(s, lo, hi) == SubSeq(s, lo + 1, hi)

\* whether s[lo:hi] is within range (otherwise the Go runtime panics)
SliceOK(s, lo, hi) == 0 <= lo /\ lo <= hi /\ hi <= Len(s)

SwapAt(s, i, j) == [s EXCEPT ![i + 1] = s[j + 1], ![j + 1] = s[i + 1]]

NewTimeSeries == [Index |-> <<>>, Columns |-> <<>>]

Length(t) == Len(t.Index)

ListColumns(t) == DOMAIN t.Columns

\* every column is as long as the index
WellFormed(t) == \A c \in DOMAIN t.Columns : Len(t.Columns[c]) = Len(t.Index)

\* the row at 0-based position i: the timestamp with every column's value
RowAt(t, i) == [time |-> t.Index[i + 1], vals |-> [c \in DOMAIN t.Columns |-> t.Columns[c][i + 1]]]

Rows(t) == [i \in 1..Len(t.Index) |-> RowAt(t, i - 1)]

\* how many positions of the sequence s hold x
Count(s, x) == Cardinality({i \in 1..Len(s) : s[i] = x})

SameMultiset(s1, s2) ==
    /\ Len(s1) = Len(s2)
    /\ \A i \in 1..Len(s1) : Count(s1, s1[i]) = Count(s2, s1[i])

Ascending(s) == \A i \in 1..(Len(s) - 1) : s[i] <= s[i + 1]

Descending(s) == \A i \in 1..(Len(s) - 1) : s[i] >= s[i + 1]

\* ------------------------------------------------------------------------
\* Sort: sort.Slice(ts.Index, less) with the closure of the source as less.
\* The sort state d is [Index, Columns, fault]: the index and the columns the
\* closure and the swapper act on, and whether the closure indexed a column
\* out of range.
\* ------------------------------------------------------------------------

\* a closure that also holds of equal timestamps
LessValOrEqual(d, i, j) == d.Index[j + 1] <= d.Index[i + 1]

\* what the closure returns: ts.Index[j].Before(ts.Index[i])
LessVal(d, i, j) == d.Index[j + 1] < d.Index[i + 1]

\* the closure's side effect: when ts.Index[j] is before ts.Index[i] it swaps
\* v[i] and v[j] in every column
LessCall(d, i, j) ==
    IF d.fault \/ ~LessVal(d, i, j) THEN d
    ELSE IF \E c \in DOMAIN d.Columns : Len(d.Columns[c]) <= i \/ Len(d.Columns[c]) <= j
         THEN [d EXCEPT !.fault = TRUE]
         ELSE [d EXCEPT !.Columns = [c \in DOMAIN d.Columns |-> SwapAt(d.Columns[c], i, j)]]

\* the swapper sort.Slice builds for ts.Index: it swaps two index elements
SwapCall(d, i, j) == IF d.fault THEN d ELSE [d EXCEPT !.Index = SwapAt(d.Index, i, j)]

\* insertion sort's inner loop: for j > a && less(j, j-1) { swap(j, j-1); j-- }
RECURSIVE InsertDown(_, _, _)
InsertDown(d, a, j) ==
    IF j > a /\ ~d.fault /\ LessVal(d, j, j - 1)
    THEN InsertDown(SwapCall(LessCall(d, j, j - 1), j, j - 1), a, j - 1)
    ELSE d

\* insertion sort of positions [a, b), from position i on
RECURSIVE InsertFrom(_, _, _, _)
InsertFrom(d, a, b, i) ==
    IF i < b THEN InsertFrom(InsertDown(d, a, i), a, b, i + 1) ELSE d

InsertionSort(d, a, b) == InsertFrom(d, a, b, a + 1)

\* order2: it calls less(b, a) and, when that holds, returns the pair reversed
\* and counts one swap; it moves no data
Order2(r, x, y) ==
    IF LessVal(r.d, y, x)
    THEN [d |-> LessCall(r.d, y, x), a |-> y, b |-> x, swaps |-> r.swaps + 1]
    ELSE [d |-> r.d, a |-> x, b |-> y, swaps |-> r.swaps]

\* the pivot of a slice of 8 to 49 elements: the median of the elements at the
\* three quartile positions, [d, pivot, swaps]
ChoosePivot(d, a, b) ==
    LET l == b - a
        i == a + (l \div 4)
        j == a + (l \div 4) * 2
        k == a + (l \div 4) * 3
        r1 == Order2([d |-> d, swaps |-> 0], i, j)
        r2 == Order2(r1, r1.b, k)
        r3 == Order2(r2, r1.a, r2.a)
    IN  [d |-> r3.d, pivot |-> r3.b, swaps |-> r3.swaps]

\* partialInsertionSort on fewer than 50 elements: it scans for the first
\* adjacent pair out of order and shifts nothing; [d, sorted]
RECURSIVE PartialInsertionSort(_, _, _)
PartialInsertionSort(d, i, b) ==
    IF i < b /\ ~LessVal(d, i, i - 1) THEN PartialInsertionSort(d, i + 1, b)
    ELSE IF i = b THEN [d |-> d, sorted |-> TRUE]
    ELSE [d |-> LessCall(d, i, i - 1), sorted |-> FALSE]

\* for i <= j && less(i, a) { i++ }
RECURSIVE ScanUp(_, _, _, _)
ScanUp(d, i, j, a) ==
    IF i <= j /\ LessVal(d, i, a) THEN ScanUp(LessCall(d, i, a), i + 1, j, a)
    ELSE [d |-> d, i |-> i]

\* for i <= j && !less(j, a) { j-- }
RECURSIVE ScanDown(_, _, _, _)
ScanDown(d, i, j, a) ==
    IF i <= j /\ ~LessVal(d, j, a) THEN ScanDown(d, i, j - 1, a)
    ELSE IF i <= j THEN [d |-> LessCall(d, j, a), j |-> j]
    ELSE [d |-> d, j |-> j]

\* the main loop of partition, after the first exchange
RECURSIVE PartitionLoop(_, _, _, _)
PartitionLoop(d, i, j, a) ==
    LET u == ScanUp(d, i, j, a)
        w == ScanDown(u.d, u.i, j, a)
    IN  IF u.i > w.j THEN [d |-> SwapCall(w.d, w.j, a), mid |-> w.j]
        ELSE PartitionLoop(SwapCall(w.d, u.i, w.j), u.i + 1, w.j - 1, a)

\* partition of [a, b) around the element at pivot: [d, mid]
Partition(d, a, b, pivot) ==
    LET d1 == SwapCall(d, a, pivot)
        u == ScanUp(d1, a + 1, b - 1, a)
        w == ScanDown(u.d, u.i, b - 1, a)
    IN  IF u.i > w.j THEN [d |-> SwapCall(w.d, w.j, a), mid |-> w.j]
        ELSE PartitionLoop(SwapCall(w.d, u.i, w.j), u.i + 1, w.j - 1, a)

\* pdqsort on 13 elements: one pivot, one partition, and an insertion sort of
\* each side (no side is longer than 12)
PdqSort13(d, a, b) ==
    LET cp == ChoosePivot(d, a, b)
        pi == IF cp.swaps = 0 THEN PartialInsertionSort(cp.d, a + 1, b)
              ELSE [d |-> cp.d, sorted |-> FALSE]
        pt == Partition(pi.d, a, b, cp.pivot)
    IN  IF pi.sorted THEN pi.d
        ELSE InsertionSort(InsertionSort(pt.d, a, pt.mid), pt.mid + 1, b)

\* sort.Slice: insertion sort up to 12 elements, pdqsort above
SortSlice(d) ==
    IF Len(d.Index) <= 12 THEN InsertionSort(d, 0, Len(d.Index))
    ELSE PdqSort13(d, 0, Len(d.Index))

SortState(t) == SortSlice([Index |-> t.Index, Columns |-> t.Columns, fault |-> FALSE])

\* the table ts.Sort() returns, which is also what ts holds afterwards
SortTable(t) == [Index |-> SortState(t).Index, Columns |-> SortState(t).Columns]

SortFaults(t) == SortState(t).fault

\* ------------------------------------------------------------------------
\* Windows of a table
\* ------------------------------------------------------------------------

\* rows [lo, hi) of the index and of every column
Window(t, lo, hi) ==
    [Index |-> GoSlice(t.Index, lo, hi),
     Columns |-> [c \in DOMAIN t.Columns |-> GoSlice(t.Columns[c], lo, hi)]]

\* whether every slice expression of Window(t, lo, hi) is within range
WindowOK(t, lo, hi) ==
    /\ SliceOK(t.Index, lo, hi)
    /\ \A c \in DOMAIN t.Columns : SliceOK(t.Columns[c], lo, hi)

\* what a call hands back: the tables, the positions, the error, the fault
Result(tables, e) == [out |-> tables, idxs |-> <<>>, err |-> e, fault |-> "none"]

Fault(how) == [out |-> <<>>, idxs |-> <<>>, err |-> FALSE, fault |-> how]

\* ------------------------------------------------------------------------
\* Intervals and aggregators (parseInterval and functionMapper)
\* ------------------------------------------------------------------------

\* an interval string such as "2min" or "1day" is [n, unit]; BadInterval is a
\* string that does not parse
BadInterval == [n |-> 0, unit |-> "?"]

\* the duration of an interval string in ticks, 0 when it does not parse
ParseInterval(iv) ==
    IF iv.unit = "min" THEN iv.n
    ELSE IF iv.unit = "day" THEN iv.n * TicksPerDay
    ELSE 0

RECURSIVE SumSeq(_)
SumSeq(s) == IF s = <<>> THEN 0 ELSE s[1] + SumSeq(Tail(s))

\* the reducer functionMapper gives a column for an aggregator name
ApplyAgg(name, s) ==
    IF name = "sum" THEN SumSeq(s)
    ELSE IF name = "first" THEN s[1]
    ELSE s[Len(s)]

\* ------------------------------------------------------------------------
\* Resample
\* ------------------------------------------------------------------------

\* an output row that also takes in the row the bucket closed on
EmitRowThrough(acc, t, crit, head, tail) ==
    [Index |-> Append(acc.Index, t.Index[head + 1]),
     Columns |-> [c \in DOMAIN t.Columns |->
        Append(IF c \in DOMAIN acc.Columns THEN acc.Columns[c] ELSE <<>>,
               ApplyAgg(crit[c], GoSlice(t.Columns[c], head, Min2(tail + 1, Len(t.Columns[c])))))]]

\* one output row: the bucket's first timestamp and every column reduced
\* over rows [head, tail)
EmitRow(acc, t, crit, head, tail) ==
    [Index |-> Append(acc.Index, t.Index[head + 1]),
     Columns |-> [c \in DOMAIN t.Columns |->
        Append(IF c \in DOMAIN acc.Columns THEN acc.Columns[c] ELSE <<>>,
               ApplyAgg(crit[c], GoSlice(t.Columns[c], head, tail)))]]

RECURSIVE ResampleLoop(_, _, _, _, _, _)
ResampleLoop(t, d, crit, head, tail, acc) ==
    IF tail > Len(t.Index) - 1
    THEN IF head >= Len(t.Index) \/ ~WindowOK(t, head, tail) THEN Fault("panic")
         ELSE Result(<<EmitRow(acc, t, crit, head, tail)>>, FALSE)
    ELSE IF t.Index[tail + 1] < t.Index[head + 1] + d
         THEN ResampleLoop(t, d, crit, head, tail + 1, acc)
    ELSE IF tail = head
         THEN ResampleLoop(t, d, crit, head + 1, tail + 1, acc)
    ELSE IF ~WindowOK(t, head, tail) THEN Fault("panic")
    ELSE ResampleLoop(t, d, crit, tail, tail, EmitRow(acc, t, crit, head, tail))

ResampleOp(t, iv, crit) ==
    IF Len(t.Index) < 2 THEN Fault("panic")
    ELSE IF ParseInterval(iv) < t.Index[2] - t.Index[1] THEN Fault("exit")
    ELSE ResampleLoop(t, ParseInterval(iv), crit, 0, 0, NewTimeSeries)

\* ------------------------------------------------------------------------
\* Split, SplitByBatchSize, SplitByDay
\* ------------------------------------------------------------------------
RECURSIVE SplitLoop(_, _, _, _, _)
SplitLoop(t, d, head, tail, acc) ==
    IF ~(tail < Len(t.Index)) THEN Result(acc, FALSE)
    ELSE IF t.Index[tail + 1] < t.Index[head + 1] + d
         THEN SplitLoop(t, d, head, tail + 1, acc)
    ELSE IF tail = head
         THEN SplitLoop(t, d, head + 1, tail + 1, acc)
    ELSE IF ~WindowOK(t, head, tail) THEN Fault("panic")
    ELSE SplitLoop(t, d, tail, tail, Append(acc, Window(t, head, tail)))

SplitOp(t, iv) == SplitLoop(t, ParseInterval(iv), 0, 0, <<>>)

RECURSIVE BatchLoop(_, _, _, _)
BatchLoop(t, batchsize, k, acc) ==
    IF ~(k < Length(t)) THEN Result(acc, FALSE)
    ELSE LET upperbound == Min2(k + batchsize, Length(t))
         IN  IF ~WindowOK(t, k, upperbound) THEN Fault("panic")
             ELSE BatchLoop(t, batchsize, k + batchsize,
                            Append(acc, Window(t, k, upperbound)))

\* with batchsize 0 and at least one row k never advances: the loop appends
\* empty segments without end
SplitByBatchSizeOp(t, batchsize) ==
    IF batchsize = 0 /\ Length(t) > 0 THEN Fault("hang")
    ELSE BatchLoop(t, batchsize, 0, <<>>)

\* time.Time.Day(): the day of the month; the timestamps of the model lie
\* within one month
Day(time) == time \div TicksPerDay

RECURSIVE DayLoop(_, _, _, _)
DayLoop(t, k, startIndex, acc) ==
    IF k = Len(t.Index) - 1
    THEN IF ~WindowOK(t, startIndex, k + 1) THEN Fault("panic")
         ELSE Result(Append(acc, Window(t, startIndex, k + 1)), FALSE)
    ELSE IF k - 1 >= Len(t.Index) \/ k >= Len(t.Index) THEN Fault("panic")
    ELSE IF Day(t.Index[k]) # Day(t.Index[k + 1]) \/ k = Length(t) - 1
         THEN IF ~WindowOK(t, startIndex, k) THEN Fault("panic")
              ELSE DayLoop(t, k + 1, k, Append(acc, Window(t, startIndex, k)))
    ELSE DayLoop(t, k + 1, startIndex, acc)

SplitByDayOp(t) == DayLoop(t, 1, 0, <<>>)

\* ------------------------------------------------------------------------
\* Slice
\* A bound is [kind |-> "int", v |-> position], [kind |-> "time", v |-> timestamp],
\* [kind |-> "string", ok |-> whether parseDate parses it, v |-> the timestamp
\* it parses to] or [kind |-> "other"] for a value of any other type.
\* ------------------------------------------------------------------------
IntBound(p) == [kind |-> "int", v |-> p]

TimeBound(time) == [kind |-> "time", v |-> time]

StringBound(time) == [kind |-> "string", ok |-> TRUE, v |-> time]

BadStringBound == [kind |-> "string", ok |-> FALSE, v |-> 0]

OtherBound == [kind |-> "other"]

\* the positions whose timestamp is after the given one
After(t, time) == {i \in 0..(Len(t.Index) - 1) : t.Index[i + 1] > time}

Least(S) == CHOOSE x \in S : \A y \in S : x <= y

\* for i, v := range ts.Index { if v.After(time) { index = i; break } }
\* on an index variable that starts at 0
FirstAfter(t, time) == IF After(t, time) = {} THEN 0 ELSE Least(After(t, time))

LowerIndex(t, lower) ==
    IF lower.kind = "int" THEN lower.v ELSE FirstAfter(t, lower.v)

UpperIndex(t, upper) ==
    IF upper.kind = "int" THEN upper.v
    ELSE IF FirstAfter(t, upper.v) = 0 THEN Len(t.Index) - 1
    ELSE FirstAfter(t, upper.v)

\* a normalisation that counts -1 as the last row
NormalizeToLast(t, p) == IF p < 0 THEN Len(t.Index) + p ELSE p

\* if index < 0 { index = len(ts.Index) + index + 1 }
Normalize(t, p) == IF p < 0 THEN Len(t.Index) + p + 1 ELSE p

\* the two positions Slice cuts at, after normalisation and the exchange of
\* a lower position above the upper one
SliceLo(t, lower, upper) ==
    Min2(Normalize(t, LowerIndex(t, lower)), Normalize(t, UpperIndex(t, upper)))

SliceHi(t, lower, upper) ==
    IF Normalize(t, LowerIndex(t, lower)) > Normalize(t, UpperIndex(t, upper))
    THEN Normalize(t, LowerIndex(t, lower))
    ELSE Normalize(t, UpperIndex(t, upper))

SliceOp(t, lower, upper) ==
    IF lower.kind = "string" /\ ~lower.ok THEN Result(<<t>>, TRUE)
    ELSE IF lower.kind \notin {"int", "time", "string"} THEN Result(<<NewTimeSeries>>, TRUE)
    ELSE IF upper.kind = "string" /\ ~upper.ok THEN Result(<<t>>, TRUE)
    ELSE IF upper.kind \notin {"int", "time", "string"} THEN Result(<<NewTimeSeries>>, TRUE)
    ELSE IF ~WindowOK(t, SliceLo(t, lower, upper), SliceHi(t, lower, upper)) THEN Fault("panic")
    ELSE Result(<<Window(t, SliceLo(t, lower, upper), SliceHi(t, lower, upper))>>, FALSE)

\* ------------------------------------------------------------------------
\* Append
\* ------------------------------------------------------------------------

\* the columns of the receiver that the argument lacks
Missing(t, o) == DOMAIN t.Columns \ DOMAIN o.Columns

\* the sets of columns the loop can have extended when it stops: all of them
\* when the argument has every column, otherwise those the map iteration
\* visited before the first column the argument lacks
Visited(t, o) ==
    IF Missing(t, o) = {} THEN {DOMAIN t.Columns}
    ELSE SUBSET (DOMAIN t.Columns \cap DOMAIN o.Columns)

\* an extension that puts the argument's values first
ExtendedBefore(t, o, done) ==
    [c \in DOMAIN t.Columns |->
        IF c \in done THEN o.Columns[c] \o t.Columns[c] ELSE t.Columns[c]]

\* the receiver's column map after the loop extended the columns of done
Extended(t, o, done) ==
    [c \in DOMAIN t.Columns |->
        IF c \in done THEN t.Columns[c] \o o.Columns[c] ELSE t.Columns[c]]

\* Validate on a table whose columns differ in length from the index ends the
\* process (log.Fatalln); otherwise it returns nil
ValidateExits(t) == ~WellFormed(t)

\* an ordering check that also rejects equal start timestamps
StartsAfterOrAt(idx, o) == idx[1] >= o.Index[1]

\* ts.Start().After(ts1.Start()), ts.Index being the extended index
StartsAfter(idx, o) == idx[1] > o.Index[1]

\* [res |-> what the call hands back, recv |-> the receiver after the call]:
\* the index is extended in the method's copy of the receiver, the columns in
\* the map the receiver shares
AppendOp(t, o, done) ==
    LET idx == t.Index \o o.Index
        cols == Extended(t, o, done)
    IN  IF idx = <<>> \/ o.Index = <<>> THEN [res |-> Fault("panic"), recv |-> t]
        ELSE IF StartsAfter(idx, o)
             THEN [res |-> Result(<<[Index |-> idx, Columns |-> t.Columns]>>, TRUE), recv |-> t]
        ELSE IF Missing(t, o) # {}
             THEN [res |-> Result(<<[Index |-> idx, Columns |-> cols]>>, TRUE),
                   recv |-> [t EXCEPT !.Columns = cols]]
        ELSE IF ValidateExits([Index |-> idx, Columns |-> cols])
             THEN [res |-> Fault("exit"), recv |-> [t EXCEPT !.Columns = cols]]
        ELSE [res |-> Result(<<[Index |-> idx, Columns |-> cols]>>, FALSE),
              recv |-> [t EXCEPT !.Columns = cols]]

\* ------------------------------------------------------------------------
\* Map, Filter, FilterByTruthTable
\* A scalar function is named "inc" or "double"; a truth function is a
\* threshold thr and holds of the values v >= thr.  A column list is a
\* sequence of names.
\* ------------------------------------------------------------------------
ApplyFn(fn, v) == IF fn = "inc" THEN v + 1 ELSE v + v

Range(s) == {s[i] : i \in 1..Len(s)}

\* Map writes fn(v) to position k of a column of the new table, which has no
\* element: the first value of a listed column panics
MapOp(t, fn, columns) ==
    IF \E c \in Range(columns) : c \in DOMAIN t.Columns /\ Len(t.Columns[c]) > 0
    THEN Fault("panic")
    ELSE Result(<<NewTimeSeries>>, FALSE)

\* the verdict on row i: the columns are tested in order until one fails
RECURSIVE RowVerdict(_, _, _, _)
RowVerdict(t, thr, columns, i) ==
    IF columns = <<>> THEN "keep"
    ELSE IF Head(columns) \notin DOMAIN t.Columns THEN "panic"
    ELSE IF Len(t.Columns[Head(columns)]) <= i THEN "panic"
    ELSE IF ~(t.Columns[Head(columns)][i + 1] >= thr) THEN "drop"
    ELSE RowVerdict(t, thr, Tail(columns), i)

\* append row i of t to the table acc
AddRow(acc, t, i) ==
    [Index |-> Append(acc.Index, t.Index[i + 1]),
     Columns |-> [c \in DOMAIN t.Columns |->
        Append(IF c \in DOMAIN acc.Columns THEN acc.Columns[c] ELSE <<>>,
               t.Columns[c][i + 1])]]

RowOK(t, i) == \A c \in DOMAIN t.Columns : Len(t.Columns[c]) > i

RECURSIVE FilterLoop(_, _, _, _, _)
FilterLoop(t, thr, columns, i, acc) ==
    IF i >= Len(t.Index) THEN Result(<<acc>>, FALSE)
    ELSE IF RowVerdict(t, thr, columns, i) = "panic" THEN Fault("panic")
    ELSE IF RowVerdict(t, thr, columns, i) = "drop"
         THEN FilterLoop(t, thr, columns, i + 1, acc)
    ELSE IF ~RowOK(t, i) THEN Fault("panic")
    ELSE FilterLoop(t, thr, columns, i + 1, AddRow(acc, t, i))

FilterOp(t, thr, columns) == FilterLoop(t, thr, columns, 0, NewTimeSeries)

\* a test that keeps the rows the mask marks true, whatever matchingBool is
MatchesTrue(v, matchingBool) == v = TRUE

\* if v == matchingBool
Matches(v, matchingBool) == v = matchingBool

RECURSIVE TruthLoop(_, _, _, _, _, _)
TruthLoop(t, truthArray, matchingBool, k, acc, idxs) ==
    IF k >= Len(truthArray) THEN [Result(<<acc>>, FALSE) EXCEPT !.idxs = idxs]
    ELSE IF ~Matches(truthArray[k + 1], matchingBool)
         THEN TruthLoop(t, truthArray, matchingBool, k + 1, acc, idxs)
    ELSE IF ~RowOK(t, k) THEN Fault("panic")
    ELSE TruthLoop(t, truthArray, matchingBool, k + 1, AddRow(acc, t, k), Append(idxs, k))

FilterByTruthTableOp(t, truthArray, matchingBool) ==
    IF Length(t) # Len(truthArray) THEN Result(<<NewTimeSeries>>, FALSE)
    ELSE TruthLoop(t, truthArray, matchingBool, 0, NewTimeSeries, <<>>)

\* the orders in which a map's keys can be listed
Orders(S) == {q \in [1..Cardinality(S) -> S] : Range(q) = S}

\* ------------------------------------------------------------------------
\* Input tables
\* ------------------------------------------------------------------------

\* a well-formed table: the index ix; no column, a price column pr, or a
\* price column pr and a volume column that numbers the rows
Table(ix, pr, shape) ==
    [Index |-> ix,
     Columns |-> [c \in (IF shape = 0 THEN {} ELSE IF shape = 1 THEN {"price"} ELSE ColNames) |->
                    IF c = "price" THEN pr ELSE [i \in 1..Len(ix) |-> i]]]

\* the well-formed tables of at most maxlen rows with an index over times
TablesUpTo(maxlen, times) ==
    UNION {{Table(ix, pr, shape) : ix \in [1..n -> times], pr \in [1..n -> Vals], shape \in 0..2} :
           n \in 0..maxlen}

\* the tables the chained calls start from
ChainTables == TablesUpTo(ChainLen, 0..ChainTime)

\* tables of 13 rows, the shortest sort.Slice does not sort by insertion: the
\* index is a permutation of 0..12 or holds every timestamp twice, and the
\* price column numbers the rows
LongTables ==
    {[Index |-> [i \in 1..13 |-> ((i * m + k) % 13) \div q],
      Columns |-> [c \in {"price"} |-> [i \in 1..13 |-> i]]] :
        k \in 0..12, m \in {1, 5, 12}, q \in {1, 2}}


\* tables of 10 rows, a minute apart
TenRowTables ==
    {[Index |-> [i \in 1..10 |-> i - 1 + k],
      Columns |-> [c \in {"price"} |-> [i \in 1..10 |-> i]]] : k \in 0..1}

\* tables of 4 rows a minute apart, price = [1,2,3,4]
FourRowTables ==
    {[Index |-> <<k, k + 1, k + 2, k + 3>>,
      Columns |-> [n \in {"price"} |-> <<1, 2, 3, 4>>]] : k \in 0..1}

\* tables of 5 rows over 3 days: 2 rows, 2 rows and 1 row
FiveRowTables ==
    {[Index |-> <<0, a, TicksPerDay, TicksPerDay + b, 2 * TicksPerDay + c>>,
      Columns |-> [n \in {"price"} |-> <<1, 2, 3, 4, 5>>]] :
        a \in {0, 1}, b \in {0, 1}, c \in {0, 1}}

\* ------------------------------------------------------------------------
\* State
\* ------------------------------------------------------------------------
VARIABLES
    ts,     \* the table the caller holds: the receiver of the next call
    call,   \* the last call: its name, its receiver before the call, its arguments
    out,    \* the tables the last call returned, in order
    idxs,   \* the positions the last call returned (FilterByTruthTable)
    err,    \* whether the last call returned a non-nil error
    fault,  \* "none", or how the last call failed to return: "panic", "exit", "hang"
    hist,   \* the names of the calls made so far
    kept    \* a derived table the caller keeps, and the rows [lo, hi) of the
            \* receiver's arrays its slices were cut from

vars == <<ts, call, out, idxs, err, fault, hist, kept>>

\* the caller keeps no derived table
NotKept == [held |-> FALSE, lo |-> 0, hi |-> 0, table |-> NewTimeSeries]

\* what the kept table holds when the receiver's arrays hold t: its index is
\* ts.Index[lo:hi] and its columns are ts.Columns[col][lo:hi], slices of the
\* receiver's arrays
Shared(k, t) == IF k.held THEN [k EXCEPT !.table = Window(t, k.lo, k.hi)] ELSE k

Start(t) ==
    /\ ts = t
    /\ call = [op |-> "new"]
    /\ out = <<>>
    /\ idxs = <<>>
    /\ err = FALSE
    /\ fault = "none"
    /\ hist = <<>>
    /\ kept = NotKept

\* the caller starts with a well-formed table of at most MaxLen rows over Times
StartSmall ==
    \E n \in 0..MaxLen : \E ix \in [1..n -> Times], pr \in [1..n -> Vals], shape \in 0..2 :
        Start(Table(ix, pr, shape))

\* the same, the index ascending
StartAscending ==
    \E n \in 0..MaxLen : \E ix \in [1..n -> Times], pr \in [1..n -> Vals], shape \in 0..2 :
        Ascending(ix) /\ Start(Table(ix, pr, shape))

\* a call can be made: the process is alive and the run is within its bound
CanCall == fault = "none" /\ Len(hist) < MaxCalls

\* what the last call handed back
Returns(r) ==
    /\ out' = r.out
    /\ idxs' = r.idxs
    /\ err' = r.err
    /\ fault' = r.fault

\* ts.Sort(): the index and the columns are reordered in place (the receiver
\* shares them) and the same table is returned
Sort ==
    /\ CanCall
    /\ call' = [op |-> "Sort", recv |-> ts]
    /\ hist' = Append(hist, "Sort")
    /\ IF SortFaults(ts)
       THEN Returns(Fault("panic")) /\ ts' = ts
       ELSE Returns(Result(<<SortTable(ts)>>, FALSE)) /\ ts' = SortTable(ts)
    /\ kept' = Shared(kept, ts')

ResampleWith(intervals, criteria) ==
    /\ CanCall
    /\ \E iv \in intervals, crit \in criteria :
        /\ call' = [op |-> "Resample", recv |-> ts, interval |-> iv, crit |-> crit]
        /\ Returns(ResampleOp(ts, iv, crit))
    /\ hist' = Append(hist, "Resample")
    /\ ts' = ts
    /\ kept' = kept

SplitWith(intervals) ==
    /\ CanCall
    /\ \E iv \in intervals :
        /\ call' = [op |-> "Split", recv |-> ts, interval |-> iv]
        /\ Returns(SplitOp(ts, iv))
    /\ hist' = Append(hist, "Split")
    /\ ts' = ts
    /\ kept' = kept

SplitByBatchSizeWith(sizes) ==
    /\ CanCall
    /\ \E n \in sizes :
        /\ call' = [op |-> "SplitByBatchSize", recv |-> ts, batchsize |-> n]
        /\ Returns(SplitByBatchSizeOp(ts, n))
    /\ hist' = Append(hist, "SplitByBatchSize")
    /\ ts' = ts
    /\ kept' = kept

SplitByDay ==
    /\ CanCall
    /\ call' = [op |-> "SplitByDay", recv |-> ts]
    /\ Returns(SplitByDayOp(ts))
    /\ hist' = Append(hist, "SplitByDay")
    /\ ts' = ts
    /\ kept' = kept

SliceWith(lowers, uppers) ==
    /\ CanCall
    /\ \E lower \in lowers, upper \in uppers :
        /\ call' = [op |-> "Slice", recv |-> ts, lower |-> lower, upper |-> upper]
        /\ Returns(SliceOp(ts, lower, upper))
    /\ hist' = Append(hist, "Slice")
    /\ ts' = ts
    /\ kept' = kept

\* ts.Append(o): the receiver keeps its index and sees the extended columns
AppendWith(others) ==
    /\ CanCall
    /\ \E o \in others : \E done \in Visited(ts, o) :
        /\ call' = [op |-> "Append", recv |-> ts, other |-> o]
        /\ Returns(AppendOp(ts, o, done).res)
        /\ ts' = AppendOp(ts, o, done).recv
    /\ hist' = Append(hist, "Append")
    /\ kept' = Shared(kept, ts')

\* a column list argument: not given (nil) or the names given
NoColumns == [given |-> FALSE, names |-> <<>>]

Names(names) == [given |-> TRUE, names |-> names]

\* if columns == nil { columns = ts.ListColumns() }: the lists the call can
\* work on
ColumnLists(t, columns) ==
    IF columns.given THEN {columns.names} ELSE Orders(ListColumns(t))

MapWith(fns, columnArgs) ==
    /\ CanCall
    /\ \E fn \in fns, columns \in columnArgs : \E names \in ColumnLists(ts, columns) :
        /\ call' = [op |-> "Map", recv |-> ts, fn |-> fn, columns |-> columns]
        /\ Returns(MapOp(ts, fn, names))
    /\ hist' = Append(hist, "Map")
    /\ ts' = ts
    /\ kept' = kept

FilterWith(thresholds, columnArgs) ==
    /\ CanCall
    /\ \E thr \in thresholds, columns \in columnArgs : \E names \in ColumnLists(ts, columns) :
        /\ call' = [op |-> "Filter", recv |-> ts, thr |-> thr, columns |-> columns]
        /\ Returns(FilterOp(ts, thr, names))
    /\ hist' = Append(hist, "Filter")
    /\ ts' = ts
    /\ kept' = kept

FilterByTruthTableWith(masks) ==
    /\ CanCall
    /\ \E truthArray \in masks, matchingBool \in BOOLEAN :
        /\ call' = [op |-> "FilterByTruthTable", recv |-> ts,
                    truthArray |-> truthArray, matchingBool |-> matchingBool]
        /\ Returns(FilterByTruthTableOp(ts, truthArray, matchingBool))
    /\ hist' = Append(hist, "FilterByTruthTable")
    /\ ts' = ts
    /\ kept' = kept

\* the caller goes on with a table the last call returned without error
Take ==
    /\ fault = "none"
    /\ err = FALSE
    /\ \E i \in 1..Len(out) : ts' = out[i]
    /\ call' = [op |-> "take"]
    /\ out' = <<>>
    /\ idxs' = <<>>
    /\ kept' = NotKept
    /\ UNCHANGED <<err, fault, hist>>

\* the number of rows in the tables before the i-th of tables
RECURSIVE RowsBefore(_, _)
RowsBefore(tables, i) ==
    IF i <= 1 THEN 0 ELSE RowsBefore(tables, i - 1) + Len(tables[i - 1].Index)

\* the first row of the receiver in the i-th table the last call returned:
\* Slice cuts at lowerIndex, the splits cut consecutive runs from row 0
CutAt(i) ==
    IF call.op = "Slice" THEN SliceLo(call.recv, call.lower, call.upper)
    ELSE RowsBefore(out, i)

\* the caller keeps a table that Slice, SplitByBatchSize or SplitByDay has
\* just cut from the receiver
Keep ==
    /\ fault = "none"
    /\ err = FALSE
    /\ call.op \in {"Slice", "SplitByBatchSize", "SplitByDay"}
    /\ ~kept.held
    /\ \E i \in 1..Len(out) :
        kept' = [held |-> TRUE, lo |-> CutAt(i), hi |-> CutAt(i) + Len(out[i].Index),
                 table |-> out[i]]
    /\ UNCHANGED <<ts, call, out, idxs, err, fault, hist>>

\* the last call returned (it neither panicked, nor ended the process, nor hung)
Returned(op) == call.op = op /\ fault = "none"

\* ------------------------------------------------------------------------
\* Sort alone, on the small tables and on the 13-row tables
\* ------------------------------------------------------------------------
InitSort == StartSmall \/ \E t \in LongTables : Start(t)

NextSort == Sort

SpecSort == InitSort /\ [][NextSort]_vars

\* ------------------------------------------------------------------------
\* Any sequence of the operations, each on the table the caller holds
\* ------------------------------------------------------------------------
ChainIntervals == {[n |-> 1, unit |-> "min"], [n |-> 1, unit |-> "day"], BadInterval}

ChainCriteria == {[c \in ColNames |-> a] : a \in {"sum", "last"}}

ChainBounds ==
    {IntBound(p) : p \in -ChainLen..ChainLen}
    \cup {TimeBound(0), StringBound(1), BadStringBound, OtherBound}

ChainOthers == TablesUpTo(1, 0..ChainTime)

ChainColumns == {NoColumns, Names(<<>>), Names(<<"price">>), Names(<<"volume", "price">>)}

Resample == ResampleWith(ChainIntervals, ChainCriteria)

Split == SplitWith(ChainIntervals)

SplitByBatchSize == SplitByBatchSizeWith(-1..ChainLen)

Slice == SliceWith(ChainBounds, ChainBounds)

AppendTable == AppendWith(ChainOthers)

Map == MapWith({"inc"}, ChainColumns)

Filter == FilterWith(0..1, ChainColumns)

FilterByTruthTable == FilterByTruthTableWith(SeqsUpTo(BOOLEAN, ChainLen))

Init == \E t \in ChainTables : Start(t)

Next ==
    \/ Sort
    \/ Resample
    \/ Split
    \/ SplitByDay
    \/ SplitByBatchSize
    \/ Slice
    \/ AppendTable
    \/ Map
    \/ Filter
    \/ FilterByTruthTable
    \/ Take

Spec == Init /\ [][Next]_vars

\* ------------------------------------------------------------------------
\* One call of one operation
\* ------------------------------------------------------------------------
FirstCall == hist = <<>>

\* Split with intervals that parse to a positive duration, on ascending tables
PositiveIntervals ==
    {[n |-> k, unit |-> "min"] : k \in 1..(MaxTime + 1)} \cup {[n |-> 1, unit |-> "day"]}

InitSplit == StartAscending

NextSplit == FirstCall /\ SplitWith(PositiveIntervals)

SpecSplit == InitSplit /\ [][NextSplit]_vars

\* SplitByDay
InitDay == StartSmall \/ \E t \in FiveRowTables : Start(t)

NextDay == FirstCall /\ SplitByDay

SpecDay == InitDay /\ [][NextDay]_vars

\* Slice with positions from below -len-1 to above len, timestamps and strings
SliceBounds ==
    {IntBound(p) : p \in (-ChainLen - 2)..(ChainLen + 1)}
    \cup {TimeBound(x) : x \in 0..ChainTime}
    \cup {StringBound(x) : x \in 0..ChainTime}
    \cup {BadStringBound, OtherBound}

InitSlice == \E t \in ChainTables \cup TenRowTables : Start(t)

NextSlice == FirstCall /\ SliceWith(SliceBounds, SliceBounds)

SpecSlice == InitSlice /\ [][NextSlice]_vars

\* Append, again and again on the same receiver
\* the tables of at most OtherLen rows over 0..OtherTime whose price column
\* holds the timestamps
AppendTables ==
    UNION {{Table(ix, ix, shape) : ix \in [1..n -> 0..OtherTime], shape \in 0..2} :
           n \in 0..OtherLen}

InitAppend == \E t \in AppendTables : Start(t)

NextAppend == AppendWith(AppendTables)

SpecAppend == InitAppend /\ [][NextAppend]_vars

\* Resample on ascending tables, with every aggregator, with intervals from
\* zero up and with a string that does not parse
ResampleIntervals ==
    {[n |-> k, unit |-> "min"] : k \in 0..(MaxTime + 1)}
    \cup {[n |-> 1, unit |-> "day"], BadInterval}

ResampleCriteria == [ColNames -> {"sum", "first", "last"}]

InitResample == StartAscending \/ \E t \in FourRowTables : Start(t)

NextResample == FirstCall /\ ResampleWith(ResampleIntervals, ResampleCriteria)

SpecResample == InitResample /\ [][NextResample]_vars

\* Map with either function and with column lists given or left out
InitMap == StartSmall

NextMap == FirstCall /\ MapWith({"inc", "double"}, ChainColumns)

SpecMap == InitMap /\ [][NextMap]_vars

\* FilterByTruthTable with masks shorter than, as long as and longer than the
\* table
InitTruth == \E t \in ChainTables : Start(t)

NextTruth == FirstCall /\ FilterByTruthTableWith(SeqsUpTo(BOOLEAN, ChainLen + 1))

SpecTruth == InitTruth /\ [][NextTruth]_vars

\* A derived table is kept and the parent is sorted
InitAlias == StartSmall

NextAlias ==
    \/ SliceWith({IntBound(p) : p \in 0..MaxLen}, {IntBound(p) : p \in 0..MaxLen})
    \/ SplitByBatchSizeWith(1..MaxLen)
    \/ SplitByDay
    \/ Keep
    \/ Sort

SpecAlias == InitAlias /\ [][NextAlias]_vars

\* ------------------------------------------------------------------------
\* Properties
\* ------------------------------------------------------------------------

\* C1: every table a core operation returns, after any sequence of the
\* operations and also when it comes with an error, has every column as long
\* as its index.
C1_ReturnedTablesWellFormed == \A i \in 1..Len(out) : WellFormed(out[i])

\* C2: Sort is a permutation of the rows: the rows of the table it returns,
\* each a timestamp with every column's value at its position, are the rows of
\* the table it was called on, as a multiset.
C2_SortPermutesRows ==
    Returned("Sort") => SameMultiset(Rows(out[1]), Rows(call.recv))

\* C3: the index of the table Sort returns is in ascending order.
C3_SortAscending == Returned("Sort") => Ascending(out[1].Index)

\* C4: Sort is idempotent: a Sort that follows a Sort returns the same index
\* and the same columns, position by position.
C4_SortIdempotent ==
    [][(Returned("Sort") /\ hist' # hist /\ call'.op = "Sort" /\ fault' = "none")
        => out'[1] = out[1]]_vars

\* a table of several timestamps and a column has been sorted twice
C4_Witness ==
    /\ hist = <<"Sort", "Sort">>
    /\ fault = "none"
    /\ Cardinality(Range(ts.Index)) >= 2
    /\ ListColumns(ts) # {}
    /\ call.recv = out[1]

\* the indexes of the segments, one after the other
RECURSIVE ConcatIndexes(_)
ConcatIndexes(segs) ==
    IF segs = <<>> THEN <<>> ELSE Head(segs).Index \o ConcatIndexes(Tail(segs))

RECURSIVE SumLengths(_)
SumLengths(segs) ==
    IF segs = <<>> THEN 0 ELSE Length(Head(segs)) + SumLengths(Tail(segs))

\* C5: on a table with an ascending index and with a positive interval, the
\* segments of Split partition the table: their row counts add up to the
\* table's length and their indexes, one after the other, are the table's
\* index, the last partial bucket included.
C5_SplitPartitions ==
    (call.op = "Split" /\ Ascending(call.recv.Index) /\ ParseInterval(call.interval) > 0)
    => /\ fault = "none"
       /\ SumLengths(out) = Length(call.recv)
       /\ ConcatIndexes(out) = call.recv.Index

\* the segments by calendar day: a new segment starts at every position whose
\* day differs from the day of the position before it
RECURSIVE DaySegments(_, _, _)
DaySegments(t, start, k) ==
    IF Length(t) = 0 THEN <<>>
    ELSE IF k >= Length(t) THEN <<Window(t, start, Length(t))>>
    ELSE IF Day(t.Index[k + 1]) # Day(t.Index[k])
         THEN <<Window(t, start, k)>> \o DaySegments(t, k, k + 1)
    ELSE DaySegments(t, start, k + 1)

\* C6: for a table of any length SplitByDay returns, without fault, the
\* segments by calendar day, the last row in the last segment; 5 rows over 3
\* days with 2, 2 and 1 rows give segments of 2, 2 and 1 rows.
C6_SplitByDaySegments ==
    call.op = "SplitByDay"
    => /\ fault = "none"
       /\ ~err
       /\ out = DaySegments(call.recv, 0, 1)

\* C7: SplitByBatchSize(n) returns an error when n <= 0, on any table; when
\* n > 0 it returns chunks of n rows, the last one possibly shorter.
C7_BatchSize ==
    call.op = "SplitByBatchSize"
    => /\ fault = "none"
       /\ IF call.batchsize <= 0 THEN err
          ELSE /\ ~err
               /\ ConcatIndexes(out) = call.recv.Index
               /\ \A i \in 1..Len(out) :
                    /\ Length(out[i]) >= 1
                    /\ Length(out[i]) <= call.batchsize
                    /\ i < Len(out) => Length(out[i]) = call.batchsize

\* a position bound as the claim normalises it: p + L + 1 when p is negative
Normalized(p, L) == IF p < 0 THEN p + L + 1 ELSE p

IntCall == call.op = "Slice" /\ call.lower.kind = "int" /\ call.upper.kind = "int"

\* C8 as stated: with integer bounds Slice returns the rows at positions
\* [lower, upper) of the normalised bounds (no row when lower >= upper).
C8_SliceRowsLowerToUpper ==
    (IntCall /\ fault = "none")
    => LET lo == Normalized(call.lower.v, Length(call.recv))
           hi == Normalized(call.upper.v, Length(call.recv))
       IN  /\ ~err
           /\ out[1] = IF lo <= hi THEN Window(call.recv, lo, hi) ELSE NewTimeSeries

\* C8, amended: with integer bounds whose normalised values (p + L + 1 for a
\* negative p) lie within 0..L, Slice returns the rows at positions
\* [lower, upper) of the normalised bounds, the two exchanged first when lower
\* is above upper; Slice(-3, -1) on 10 rows returns the rows 8 and 9.
C8_SliceNormalized ==
    IntCall
    => LET L == Length(call.recv)
           lo == Normalized(call.lower.v, L)
           hi == Normalized(call.upper.v, L)
       IN  /\ (0 <= lo /\ lo <= L /\ 0 <= hi /\ hi <= L)
                => /\ fault = "none"
                   /\ ~err
                   /\ out[1] = Window(call.recv, Min2(lo, hi), IF lo > hi THEN lo ELSE hi)
           /\ (L = 10 /\ call.lower.v = -3 /\ call.upper.v = -1)
                => /\ fault = "none"
                   /\ Rows(out[1]) = <<RowAt(call.recv, 8), RowAt(call.recv, 9)>>

\* Slice(-3, -1) has returned on a table of 10 rows
C8_Witness ==
    /\ IntCall
    /\ fault = "none"
    /\ Length(call.recv) = 10
    /\ call.lower.v = -3
    /\ call.upper.v = -1
    /\ Length(out[1]) = 2

\* C9: on a table with an ascending index a timestamp bound, lower or upper,
\* resolves to the first position whose timestamp is after it, also for a
\* timestamp before the first row; only an upper bound that no row is after
\* resolves to the last position.
C9_TimeBoundResolution ==
    (call.op = "Slice" /\ Ascending(call.recv.Index) /\ Length(call.recv) > 0)
    => /\ (call.lower.kind = "time" /\ After(call.recv, call.lower.v) # {})
            => LowerIndex(call.recv, call.lower) = Least(After(call.recv, call.lower.v))
       /\ (call.lower.kind \in {"int", "time"} /\ call.upper.kind = "time")
            => UpperIndex(call.recv, call.upper) =
                 IF After(call.recv, call.upper.v) = {} THEN Length(call.recv) - 1
                 ELSE Least(After(call.recv, call.upper.v))

NonEmptyAppend ==
    call.op = "Append" /\ Length(call.recv) > 0 /\ Length(call.other) > 0

\* C10: for non-empty r and o, r.Append(o) returns an error when o starts
\* before r starts and when o lacks a column of r; when r starts no later than
\* o, o has every column of r and the columns are as long as the indexes, it
\* returns no error.
C10_AppendErrors ==
    NonEmptyAppend
    => LET r == call.recv
           o == call.other
           before == o.Index[1] < r.Index[1]
           lacks == \E c \in DOMAIN r.Columns : c \notin DOMAIN o.Columns
       IN  /\ (before \/ lacks) => (fault = "none" /\ err)
           /\ (~before /\ ~lacks /\ WellFormed(r) /\ WellFormed(o))
                => (fault = "none" /\ ~err)

\* a table that starts with the receiver and has a further column has been
\* appended without error
C10_Witness ==
    /\ NonEmptyAppend
    /\ fault = "none"
    /\ ~err
    /\ call.other.Index[1] = call.recv.Index[1]
    /\ ListColumns(call.recv) # {}
    /\ ListColumns(call.other) # ListColumns(call.recv)

\* C11: when r.Append(o) succeeds, the returned table's index is r's index
\* followed by o's index, its columns are exactly r's columns (a column only o
\* has is absent), and each column is r's column followed by o's column of
\* the same name.
C11_AppendConcatenates ==
    (Returned("Append") /\ ~err)
    => /\ Len(out) = 1
       /\ out[1].Index = call.recv.Index \o call.other.Index
       /\ DOMAIN out[1].Columns = DOMAIN call.recv.Columns
       /\ \A c \in DOMAIN call.recv.Columns :
            /\ c \in DOMAIN call.other.Columns
            /\ out[1].Columns[c] = call.recv.Columns[c] \o call.other.Columns[c]

\* a one-row table with a price column has been appended, without error, to
\* a one-row table that also has a volume column and a later timestamp
C11_Witness ==
    /\ Returned("Append")
    /\ ~err
    /\ Length(call.recv) = 1
    /\ Length(call.other) = 1
    /\ call.recv.Index[1] < call.other.Index[1]
    /\ ListColumns(call.recv) = {"price"}
    /\ ListColumns(call.other) = ColNames

\* C16: r.Append(o) leaves the receiver r unchanged, whether it succeeds or
\* fails: r's index and every column of r are as before the call, so r still
\* has every column as long as its index.
C16_AppendKeepsReceiver ==
    call.op = "Append" => (ts = call.recv /\ (WellFormed(call.recv) => WellFormed(ts)))

\* the rows, from position h on, whose timestamp lies in [Index[h], Index[h] + d)
BucketRows(t, d, h) ==
    {i \in h..(Len(t.Index) - 1) : t.Index[i + 1] < t.Index[h + 1] + d}

\* the positions the buckets of width d start at, from position h on
RECURSIVE BucketStarts(_, _, _)
BucketStarts(t, d, h) ==
    IF h >= Len(t.Index) THEN <<>>
    ELSE <<h>> \o BucketStarts(t, d, h + Cardinality(BucketRows(t, d, h)))

\* the values of column c in the rows of the bucket that starts at h
BucketValues(t, d, c, h) ==
    [j \in 1..Cardinality(BucketRows(t, d, h)) |-> t.Columns[c][h + j]]

\* a Resample call the claim is about: an ascending index of two rows or
\* more and a target interval, a positive duration, not below the source's
ResampleCall ==
    /\ call.op = "Resample"
    /\ Len(call.recv.Index) >= 2
    /\ Ascending(call.recv.Index)
    /\ ParseInterval(call.interval) > 0
    /\ ParseInterval(call.interval) >= call.recv.Index[2] - call.recv.Index[1]

\* C12: for an ascending index of at least two rows and a target interval not
\* smaller than the source interval, Resample emits exactly one row per
\* half-open bucket [start, start + interval), start being the timestamp of
\* the first row not yet bucketed, the final partial bucket included: the
\* row's index is the bucket's start and each column's value is the column's
\* aggregator over exactly the bucket's rows; 4 rows a minute apart with
\* price = [1,2,3,4], resampled to 2 minutes with sum, give [t0,t2], [3,7].
C12_ResampleBuckets ==
    ResampleCall
    => LET t == call.recv
           d == ParseInterval(call.interval)
           starts == BucketStarts(t, d, 0)
       IN  /\ fault = "none"
           /\ Len(out) = 1
           /\ out[1].Index = [k \in 1..Len(starts) |-> t.Index[starts[k] + 1]]
           /\ DOMAIN out[1].Columns = DOMAIN t.Columns
           /\ \A c \in DOMAIN t.Columns :
                out[1].Columns[c] =
                    [k \in 1..Len(starts) |->
                        ApplyAgg(call.crit[c], BucketValues(t, d, c, starts[k]))]
           /\ (t \in FourRowTables /\ d = 2 /\ call.crit["price"] = "sum")
                => (out[1].Index = <<t.Index[1], t.Index[3]>>
                    /\ out[1].Columns["price"] = <<3, 7>>)

\* the 4-row table has been resampled to 3 minutes with sum: a full bucket
\* of three rows and a final partial bucket of one
C12_Witness ==
    /\ ResampleCall
    /\ call.recv \in FourRowTables
    /\ ParseInterval(call.interval) = 3
    /\ call.crit["price"] = "sum"
    /\ fault = "none"
    /\ out[1].Index = <<call.recv.Index[1], call.recv.Index[4]>>
    /\ out[1].Columns["price"] = <<6, 4>>

\* the columns a Map call lists: those given, or all of the receiver's
Listed == IF call.columns.given THEN Range(call.columns.names) ELSE ListColumns(call.recv)

\* C13: for every table t and every list of column names of t (all columns
\* when none is given), Map(fn, columns) returns without fault a new table
\* with exactly the listed columns, each as long as in t and holding fn of
\* the value at every position of t's column.
C13_MapAppliesFn ==
    (call.op = "Map" /\ Listed \subseteq ListColumns(call.recv))
    => /\ fault = "none"
       /\ Len(out) = 1
       /\ DOMAIN out[1].Columns = Listed
       /\ \A c \in Listed :
            out[1].Columns[c] =
                [k \in 1..Len(call.recv.Columns[c]) |-> ApplyFn(call.fn, call.recv.Columns[c][k])]

\* C14: FilterByTruthTable(mask, matchValue) never returns an error value;
\* when len(mask) differs from the table's length it returns an empty table
\* and an empty position list; when they are equal it returns, in ascending
\* order, exactly the positions i with mask[i] = matchValue and a table
\* holding exactly those rows with all columns.
C14_TruthTableRows ==
    call.op = "FilterByTruthTable"
    => LET t == call.recv
           mask == call.truthArray
       IN  /\ fault = "none"
           /\ ~err
           /\ Len(out) = 1
           /\ IF Len(mask) # Length(t)
              THEN out[1] = NewTimeSeries /\ idxs = <<>>
              ELSE /\ \A k \in 1..(Len(idxs) - 1) : idxs[k] < idxs[k + 1]
                   /\ Range(idxs) =
                        {i \in 0..(Len(mask) - 1) : mask[i + 1] = call.matchingBool}
                   /\ out[1].Index = [k \in 1..Len(idxs) |-> t.Index[idxs[k] + 1]]
                   /\ idxs # <<>> => DOMAIN out[1].Columns = DOMAIN t.Columns
                   /\ \A c \in DOMAIN out[1].Columns :
                        out[1].Columns[c] = [k \in 1..Len(idxs) |-> t.Columns[c][idxs[k] + 1]]

\* a two-row table with two columns has been filtered by a mask that matches
\* false in its second row only
C14_Witness ==
    /\ Returned("FilterByTruthTable")
    /\ Length(call.recv) = 2
    /\ ListColumns(call.recv) = ColNames
    /\ call.truthArray = <<TRUE, FALSE>>
    /\ call.matchingBool = FALSE
    /\ idxs = <<1>>
    /\ Length(out[1]) = 1

\* the kept table was cut from the rows of the receiver that kept records
KeptIsCut == kept.held => kept.table = Window(ts, kept.lo, kept.hi)

\* C15: a table s derived by Slice, SplitByBatchSize or SplitByDay does not
\* alias its parent's storage: after s is derived from t, a later in-place
\* change of t's index or column elements, such as t.Sort(), leaves the index
\* and every column of s unchanged.
C15_DerivedTablesDoNotAlias == [][kept.held => kept'.table = kept.table]_vars

====
